---- MODULE Spec2Model ----
(***************************************************************************)
(* A model of the DCA back-testing engine of src/src/backtest.py:          *)
(* run_backtest (fetch, RSI, the RSI strategy and its monthly budget       *)
(* normalisation, the SIP benchmark, the sentiment strategy, the summary   *)
(* table) and simulate_news_based_dca called on its own.                   *)
(*                                                                         *)
(* Numbers.  The program computes in IEEE doubles.  The model computes in  *)
(* exact rationals <<n, d>> (d > 0, lowest terms) extended with the IEEE   *)
(* special values the program can produce: <<0, 0>> is NaN, <<1, 0>> is    *)
(* +inf and <<-1, 0>> is -inf.  Rounding error of double arithmetic is not *)
(* modelled.                                                               *)
(***************************************************************************)
EXTENDS Integers, Sequences, FiniteSets, TLC

VARIABLES
    call,                 \* the entry point that was called
    pc,                   \* position of the run
    args,                 \* the arguments of the call
    df,                   \* the price frame: rows [Month, Adj_Close, RSI]
    df_agent,             \* run_backtest: df_agent['Buy_USD'], one per row of df
    buys,                 \* simulate_sip: buys, one per row of df
    sip,                  \* <<>> or <<PortfolioState>> of the SIP benchmark
    agent,                \* <<>> or <<PortfolioState>> of the RSI strategy
    news,                 \* <<>> (None) or <<PortfolioState>> of the sentiment strategy
    ndf,                  \* simulate_news_based_dca: rows [Sentiment, Buy_USD]
    idx,                  \* simulate_news_based_dca: the row the loop is at
    btc_holdings,         \* simulate_news_based_dca: local
    cash_invested_total,  \* simulate_news_based_dca: local
    cash_reserve,         \* simulate_news_based_dca: local
    portfolio_values,     \* simulate_news_based_dca: local
    summary,              \* <<>> or the rows of the summary table
    use_real_news,        \* <<>> or <<the use_real_news argument of the call>>
    keys,                 \* the news providers an API key is configured for
    requested,            \* fetch_all_news: the providers a request went to
    news_df,              \* compute_news_sentiment_series: the articles fetched
    sentiment_series,     \* compute_news_sentiment_series: one score per row of df
    date_pos              \* compute_news_sentiment_series: the row the loop is at

\* the state of news_api.py
apiVars == <<use_real_news, keys, requested, news_df, sentiment_series, date_pos>>

vars == <<call, pc, args, df, df_agent, buys, sip, agent, news, ndf, idx,
          btc_holdings, cash_invested_total, cash_reserve, portfolio_values,
          summary, apiVars>>

----------------------------------------------------------------------------
(* Bounds of the exploration.                                              *)

\* most rows the price provider returns to run_backtest
MaxRows == 3

\* most rows of a frame handed to simulate_news_based_dca directly
MaxDays == 9

----------------------------------------------------------------------------
(* Double arithmetic, as exact rationals with NaN and the infinities.      *)

Abs(x) == IF x < 0 THEN -x ELSE x

Sign(x) == IF x < 0 THEN -1 ELSE IF x > 0 THEN 1 ELSE 0

RECURSIVE GCD(_, _)
GCD(a, b) == IF b = 0 THEN a ELSE GCD(b, a % b)

Norm(n, d) ==
    IF d = 0 THEN <<Sign(n), 0>>
    ELSE LET g == GCD(Abs(n), Abs(d))
         IN  <<(Sign(d) * n) \div g, Abs(d) \div g>>

R(n) == <<n, 1>>

Q(n, d) == Norm(n, d)

NaN == <<0, 0>>

Zero == <<0, 1>>

IsNaN(a) == a = NaN

IsFinite(a) == a[2] # 0

Neg(a) == <<-a[1], a[2]>>

Add(a, b) ==
    IF IsNaN(a) \/ IsNaN(b) THEN NaN
    ELSE IF ~IsFinite(a) /\ ~IsFinite(b) THEN (IF a = b THEN a ELSE NaN)
    ELSE IF ~IsFinite(a) THEN a
    ELSE IF ~IsFinite(b) THEN b
    ELSE Norm(a[1] * b[2] + b[1] * a[2], a[2] * b[2])

Sub(a, b) == Add(a, Neg(b))

Mul(a, b) ==
    IF IsNaN(a) \/ IsNaN(b) THEN NaN
    ELSE IF IsFinite(a) /\ IsFinite(b) THEN Norm(a[1] * b[1], a[2] * b[2])
    ELSE <<Sign(a[1]) * Sign(b[1]), 0>>

\* x / 0 is +-inf, 0 / 0 is NaN: numpy float division raises nothing
Div(a, b) ==
    IF IsNaN(a) \/ IsNaN(b) THEN NaN
    ELSE IF ~IsFinite(b) THEN (IF IsFinite(a) THEN Zero ELSE NaN)
    ELSE IF ~IsFinite(a) THEN <<a[1] * (IF b[1] < 0 THEN -1 ELSE 1), 0>>
    ELSE Norm(a[1] * b[2], a[2] * b[1])

\* every comparison with NaN is false
Lt(a, b) ==
    /\ ~IsNaN(a)
    /\ ~IsNaN(b)
    /\ a # b
    /\ IF IsFinite(a) /\ IsFinite(b) THEN a[1] * b[2] < b[1] * a[2]
       ELSE IF ~IsFinite(a) THEN a[1] < 0
       ELSE b[1] > 0

Le(a, b) == ~IsNaN(a) /\ ~IsNaN(b) /\ (a = b \/ Lt(a, b))

Gt(a, b) == Lt(b, a)

Ge(a, b) == Le(b, a)

\* Series.clip(lo, hi): NaN stays NaN
Clip(a, lo, hi) == IF Lt(a, lo) THEN lo ELSE IF Gt(a, hi) THEN hi ELSE a

RECURSIVE Pow10(_)
Pow10(k) == IF k = 0 THEN 1 ELSE 10 * Pow10(k - 1)

\* the first k decimal digits of r / q (0 <= r < q) as <<digits, remainder>>
RECURSIVE Digits(_, _, _, _)
Digits(r, q, k, acc) ==
    IF k = 0 THEN <<acc, r>>
    ELSE Digits((r * 10) % q, q, k - 1, acc * 10 + ((r * 10) \div q))

\* round(x, k): to k decimals, ties to even; NaN and the infinities unchanged
Round(a, k) ==
    IF ~IsFinite(a) THEN a
    ELSE LET ip == a[1] \div a[2]
             dr == Digits(a[1] % a[2], a[2], k, 0)
             up == \/ 2 * dr[2] > a[2]
                   \/ 2 * dr[2] = a[2] /\ dr[1] % 2 = 1
         IN  Norm(ip * Pow10(k) + dr[1] + (IF up THEN 1 ELSE 0), Pow10(k))

RECURSIVE SumSeq(_)
\* Series.sum()
SumSeq(s) == IF s = <<>> THEN Zero ELSE Add(s[1], SumSeq(Tail(s)))

\* Series.cumsum()
CumSum(s) == [i \in 1..Len(s) |-> SumSeq(SubSeq(s, 1, i))]

----------------------------------------------------------------------------
(* Inputs.                                                                 *)

\* closing prices the provider may report
ClosePrices == {R(100), R(200)}

\* oscillator values on both sides of, and exactly at, the thresholds
RsiValues == {R(25), R(30), R(40), R(75)}

\* rsi_length arguments
RsiLengths == {1, 2}

\* <<agent_buy_low, agent_buy_normal>> arguments
AgentAmounts == {<<R(150), R(100)>>, <<R(200), R(-200)>>}

\* sip_amount / monthly_budget arguments
Budgets == {R(100)}

\* values random.gauss(0, 0.2) may return (any real is possible)
NoiseValues == {Q(-1, 2), Q(-3, 10), Zero, Q(3, 10), Q(1, 2)}

\* a row as fetch_btc_history returns it: the RSI column is not there yet
PriceRow(m, c) == [Month |-> m, Adj_Close |-> c, RSI |-> NaN]

\* dates are strictly increasing, so the calendar month never decreases; a
\* frame starts in month 1 and every next row is in the same or the next month
RECURSIVE Frames(_)
Frames(n) ==
    IF n = 0 THEN {<<>>}
    ELSE IF n = 1 THEN {<<PriceRow(1, c)>> : c \in ClosePrices}
    ELSE {Append(f, PriceRow(f[n - 1].Month + s, c)) :
            f \in Frames(n - 1), s \in {0, 1}, c \in ClosePrices}

\* longer frames: two months at most, the price moving at the month's turn
LongFrames(n) ==
    {[i \in 1..n |-> IF i <= b THEN PriceRow(1, c1) ELSE PriceRow(2, c2)] :
        b \in 1..n, c1 \in ClosePrices, c2 \in ClosePrices}

PortfolioState(ci, ba, vs) ==
    [cash_invested |-> ci, btc_accumulated |-> ba, value_series |-> vs]

RunArgs ==
    {[rsi_length |-> l, sip_amount |-> b, agent_buy_low |-> a[1],
      agent_buy_normal |-> a[2], equal_monthly_budget |-> e,
      include_news_strategy |-> w] :
        l \in RsiLengths, b \in Budgets, a \in AgentAmounts,
        e \in BOOLEAN, w \in BOOLEAN}

\* the locals of a call that has not started
Blank ==
    /\ df_agent = <<>>
    /\ buys = <<>>
    /\ sip = <<>>
    /\ agent = <<>>
    /\ news = <<>>
    /\ ndf = <<>>
    /\ idx = 0
    /\ btc_holdings = Zero
    /\ cash_invested_total = Zero
    /\ cash_reserve = Zero
    /\ portfolio_values = <<>>
    /\ summary = <<>>
    /\ requested = {}
    /\ news_df = <<>>
    /\ sentiment_series = <<>>
    /\ date_pos = 0

\* run_backtest(symbol, years, rsi_length, sip_amount, agent_buy_low,
\* agent_buy_normal, equal_monthly_budget, include_news_strategy) is called
InitRun ==
    /\ call = "run_backtest"
    /\ pc = "fetch_btc_history"
    /\ args \in RunArgs
    /\ df = <<>>
    /\ use_real_news = <<>>
    /\ keys = {}
    /\ Blank

\* simulate_news_based_dca(df, monthly_budget) is called on a frame
InitNews ==
    /\ call = "simulate_news_based_dca"
    /\ pc = "simulate_news_sentiment"
    /\ \E b \in Budgets :
         args = [rsi_length |-> 1, sip_amount |-> b,
                 agent_buy_low |-> R(150), agent_buy_normal |-> R(100),
                 equal_monthly_budget |-> FALSE, include_news_strategy |-> TRUE]
    /\ \E n \in 1..MaxDays : df \in LongFrames(n)
    /\ use_real_news = <<>>
    /\ keys = {}
    /\ Blank

\* simulate_sip(df, monthly_amount) is called on a frame
InitSip ==
    /\ call = "simulate_sip"
    /\ pc = "simulate_sip"
    /\ \E b \in Budgets :
         args = [rsi_length |-> 1, sip_amount |-> b,
                 agent_buy_low |-> R(150), agent_buy_normal |-> R(100),
                 equal_monthly_budget |-> FALSE, include_news_strategy |-> FALSE]
    /\ \E n \in 0..MaxRows : df \in Frames(n)
    /\ use_real_news = <<>>
    /\ keys = {}
    /\ Blank

\* the providers NewsAPIClient reads a key for from the environment
Providers == {"coinmarketcap", "cryptocompare", "cryptopanic", "newsapi"}

\* the environments considered: no key at all, or the keys of some providers
KeySets == {{}, {"cryptocompare"}, {"newsapi"}, {"coinmarketcap", "cryptopanic"}}

\* the keywords of app.py's call of run_backtest
AppKeywords ==
    {"symbol", "years", "rsi_length", "sip_amount", "agent_buy_low",
     "agent_buy_normal", "equal_monthly_budget", "include_news_strategy",
     "use_real_news"}

\* the parameters in run_backtest's signature
RunBacktestParameters ==
    {"symbol", "years", "rsi_length", "sip_amount", "agent_buy_low",
     "agent_buy_normal", "equal_monthly_budget", "include_news_strategy"}

\* app.py: "Run Backtest" is pressed with the inputs and the three checkboxes
InitApp ==
    /\ call = "app"
    /\ pc = "app"
    /\ args \in RunArgs
    /\ df = <<>>
    /\ use_real_news \in {<<FALSE>>, <<TRUE>>}
    /\ keys \in KeySets
    /\ Blank

\* compute_news_sentiment_series(price_df, symbol, use_real_news) is called
InitSeries ==
    /\ call = "compute_news_sentiment_series"
    /\ pc = "compute_news_sentiment_series"
    /\ args \in {a \in RunArgs : /\ a.rsi_length = 1
                                /\ a.agent_buy_low = R(150)
                                /\ ~a.equal_monthly_budget
                                /\ a.include_news_strategy}
    /\ \E n \in 1..MaxRows : df \in LongFrames(n)
    /\ use_real_news \in {<<FALSE>>, <<TRUE>>}
    /\ keys \in KeySets
    /\ Blank

Init == InitRun \/ InitNews \/ InitSip \/ InitApp \/ InitSeries

----------------------------------------------------------------------------
(* app.py's call site.                                                     *)

\* the call binds each keyword to a parameter of that name; run_backtest
\* takes no **kwargs, so a keyword without a parameter raises TypeError
\* before the body runs, and the try block shows it as the error message
app_run_backtest ==
    /\ pc = "app"
    /\ pc' = IF AppKeywords \subseteq RunBacktestParameters
             THEN "fetch_btc_history"
             ELSE "TypeError"
    /\ UNCHANGED <<apiVars, call, args, df, df_agent, buys, sip, agent, news,
                   ndf, idx, btc_holdings, cash_invested_total, cash_reserve,
                   portfolio_values, summary>>

----------------------------------------------------------------------------
(* run_backtest, up to the RSI strategy's daily amounts.                   *)

\* lines 218-223: the provider's frame; an empty one is the fatal error
fetch_btc_history ==
    /\ pc = "fetch_btc_history"
    /\ \E n \in 0..MaxRows : df' \in Frames(n)
    /\ pc' = IF df' = <<>> THEN "RuntimeError" ELSE "compute_rsi"
    /\ UNCHANGED <<apiVars, call, args, df_agent, buys, sip, agent, news, ndf, idx,
                   btc_holdings, cash_invested_total, cash_reserve,
                   portfolio_values, summary>>

\* ta.rsi(close, length): no value for the first `length` rows, and none at
\* all for a series that is not longer than `length`
RsiColumn(n, length, r) == [i \in 1..n |-> IF i <= length THEN NaN ELSE r[i - length]]

\* df.dropna(subset=['RSI', 'Adj_Close'])
DropNa(frame) == SelectSeq(frame, LAMBDA row : ~IsNaN(row.RSI) /\ ~IsNaN(row.Adj_Close))

\* lines 225-226
compute_rsi ==
    /\ pc = "compute_rsi"
    /\ LET n == Len(df)
           k == IF n > args.rsi_length THEN n - args.rsi_length ELSE 0
       IN  \E r \in [1..k -> RsiValues] :
             LET rsi == RsiColumn(n, args.rsi_length, r)
             IN  df' = DropNa([i \in 1..n |-> [df[i] EXCEPT !.RSI = rsi[i]]])
    /\ pc' = "agent_signals"
    /\ UNCHANGED <<apiVars, call, args, df_agent, buys, sip, agent, news, ndf, idx,
                   btc_holdings, cash_invested_total, cash_reserve,
                   portfolio_values, summary>>

\* AgentBuy with RSI <= 30 for RSI < 30
AgentBuyInclusive(rsi, low, normal) ==
    IF Gt(rsi, R(70)) THEN Zero
    ELSE IF Le(rsi, R(30)) THEN low
    ELSE IF Lt(rsi, R(40)) THEN normal
    ELSE Zero

\* lines 230-233, one row: each assignment overrides the ones before it
AgentBuy(rsi, low, normal) ==
    LET b0 == Zero
        b1 == IF Lt(rsi, R(30)) THEN low ELSE b0
        b2 == IF Ge(rsi, R(30)) /\ Lt(rsi, R(40)) THEN normal ELSE b1
        b3 == IF Gt(rsi, R(70)) THEN Zero ELSE b2
    IN  b3

\* lines 229-233
agent_signals ==
    /\ pc = "agent_signals"
    /\ df_agent' = [i \in 1..Len(df) |->
                      AgentBuy(df[i].RSI, args.agent_buy_low, args.agent_buy_normal)]
    /\ pc' = IF args.equal_monthly_budget THEN "scale_month" ELSE "simulate_sip"
    /\ UNCHANGED <<apiVars, call, args, df, buys, sip, agent, news, ndf, idx,
                   btc_holdings, cash_invested_total, cash_reserve,
                   portfolio_values, summary>>

----------------------------------------------------------------------------
(* Monthly budget normalisation: groupby('Month').apply(scale_month).      *)

\* the rows of frame that are in the calendar month of row i: months never
\* decrease, so they are the rows first..last
FirstOfMonth(frame, i) ==
    CHOOSE j \in 1..i :
        /\ frame[j].Month = frame[i].Month
        /\ \A k \in 1..(j - 1) : frame[k].Month # frame[i].Month

LastOfMonth(frame, i) ==
    CHOOSE j \in i..Len(frame) :
        /\ frame[j].Month = frame[i].Month
        /\ \A k \in (j + 1)..Len(frame) : frame[k].Month # frame[i].Month

\* scale_month without the allocation to the first day
scale_month_no_fallback(group, sip_amount) ==
    LET total == SumSeq(group)
    IN  IF Le(total, Zero) THEN group
        ELSE [k \in 1..Len(group) |-> Mul(group[k], Div(sip_amount, total))]

\* run_backtest.scale_month (lines 239-248) on one month's Buy_USD
scale_month(group, sip_amount) ==
    LET total == SumSeq(group)
    IN  IF Le(total, Zero)
        THEN IF Len(group) > 0 THEN [group EXCEPT ![1] = sip_amount] ELSE group
        ELSE LET scale == Div(sip_amount, total)
             IN  [k \in 1..Len(group) |-> Mul(group[k], scale)]

\* news_scale_month without the division by the month's total weight
news_scale_month_unnormalised(group, monthly_budget) ==
    LET total_weight == SumSeq(group)
    IN  IF Le(total_weight, Zero)
        THEN IF Len(group) > 0 THEN [group EXCEPT ![1] = monthly_budget] ELSE group
        ELSE [k \in 1..Len(group) |-> Mul(group[k], monthly_budget)]

\* news_scale_month without the fallback: a month without weight buys nothing
news_scale_month_no_fallback(group, monthly_budget) ==
    LET total_weight == SumSeq(group)
    IN  IF Le(total_weight, Zero) THEN group
        ELSE [k \in 1..Len(group) |-> Mul(Div(group[k], total_weight), monthly_budget)]

\* simulate_news_based_dca.scale_month (lines 112-120) on one month's Buy_USD
news_scale_month(group, monthly_budget) ==
    LET total_weight == SumSeq(group)
    IN  IF Le(total_weight, Zero)
        THEN IF Len(group) > 0 THEN [group EXCEPT ![1] = monthly_budget] ELSE group
        ELSE [k \in 1..Len(group) |-> Mul(Div(group[k], total_weight), monthly_budget)]

\* groupby('Month'): the group of row i, as the column col of its rows
GroupOf(frame, col, i) ==
    SubSeq(col, FirstOfMonth(frame, i), LastOfMonth(frame, i))

\* the place of row i in its group: apply(..., group_keys=False) puts the
\* groups' results back in the order of the rows
IndexInGroup(frame, i) == i - FirstOfMonth(frame, i) + 1

\* lines 235-249
agent_scale ==
    /\ pc = "scale_month"
    /\ df_agent' = [i \in 1..Len(df) |->
                      scale_month(GroupOf(df, df_agent, i),
                                  args.sip_amount)[IndexInGroup(df, i)]]
    /\ pc' = "simulate_sip"
    /\ UNCHANGED <<apiVars, call, args, df, buys, sip, agent, news, ndf, idx,
                   btc_holdings, cash_invested_total, cash_reserve,
                   portfolio_values, summary>>

----------------------------------------------------------------------------
(* The SIP benchmark and the RSI strategy's portfolio.                     *)

\* SipBuys with groupby('Month').tail(1) for head(1)
SipBuysTail(frame, monthly_amount) ==
    [i \in 1..Len(frame) |->
        IF LastOfMonth(frame, i) = i THEN monthly_amount ELSE Zero]

\* lines 46-48: monthly_amount on the first row of every month, 0 elsewhere
SipBuys(frame, monthly_amount) ==
    [i \in 1..Len(frame) |->
        IF FirstOfMonth(frame, i) = i THEN monthly_amount ELSE Zero]

\* buys / df['Adj_Close'], then cumsum()
Accumulate(frame, amounts) ==
    CumSum([i \in 1..Len(frame) |-> Div(amounts[i], frame[i].Adj_Close)])

\* btc_accumulated * df['Adj_Close']
ValueSeries(frame, units) ==
    [i \in 1..Len(frame) |-> Mul(units[i], frame[i].Adj_Close)]

\* lines 252 and 40-56: .iloc[-1] of an empty series raises IndexError
simulate_sip ==
    /\ pc = "simulate_sip"
    /\ IF Len(df) = 0
       THEN /\ pc' = "IndexError"
            /\ UNCHANGED <<buys, sip>>
       ELSE LET b == SipBuys(df, args.sip_amount)
                acc == Accumulate(df, b)
            IN  /\ buys' = b
                /\ sip' = <<PortfolioState(CumSum(b)[Len(b)], acc[Len(acc)],
                                            ValueSeries(df, acc))>>
                /\ pc' = IF call = "run_backtest" THEN "agent_state" ELSE "done"
    /\ UNCHANGED <<apiVars, call, args, df, df_agent, agent, news, ndf, idx,
                   btc_holdings, cash_invested_total, cash_reserve,
                   portfolio_values, summary>>

\* lines 254-265
agent_state ==
    /\ pc = "agent_state"
    /\ LET acc == Accumulate(df, df_agent)
       IN  agent' = <<PortfolioState(SumSeq(df_agent), acc[Len(acc)],
                                      ValueSeries(df, acc))>>
    /\ pc' = IF args.include_news_strategy THEN "simulate_news_sentiment"
             ELSE "summary_table"
    /\ UNCHANGED <<apiVars, call, args, df, df_agent, buys, sip, news, ndf, idx,
                   btc_holdings, cash_invested_total, cash_reserve,
                   portfolio_values, summary>>

----------------------------------------------------------------------------
(* The sentiment strategy: simulate_news_based_dca.                        *)

\* periods of df['Adj_Close'].pct_change(7)
PctChangePeriods == 7

\* Series.pct_change(periods): no value for the first `periods` rows
PctChange(frame, i) ==
    IF i <= PctChangePeriods THEN NaN
    ELSE Sub(Div(frame[i].Adj_Close, frame[i - PctChangePeriods].Adj_Close), R(1))

\* simulate_news_sentiment (lines 84-90), one row: NaN + noise is NaN and
\* clip leaves NaN alone
Sentiment(frame, i, noise) ==
    LET returns == PctChange(frame, i)
        sentiment == Div(Clip(returns, Q(-15, 100), Q(15, 100)), Q(15, 100))
    IN  Clip(Add(sentiment, noise), R(-1), R(1))

\* lines 102-104.  The noise of a row without a 7-day return changes
\* nothing, so only the noise of the other rows is drawn.
simulate_news_sentiment ==
    /\ pc = "simulate_news_sentiment"
    /\ \E noise \in [(PctChangePeriods + 1)..Len(df) -> NoiseValues] :
         ndf' = [i \in 1..Len(df) |->
                   [Sentiment |-> Sentiment(df, i, IF i > PctChangePeriods
                                                   THEN noise[i] ELSE Zero),
                    Buy_USD |-> Zero]]
    /\ pc' = "news_weights"
    /\ UNCHANGED <<apiVars, call, args, df, df_agent, buys, sip, agent, news, idx,
                   btc_holdings, cash_invested_total, cash_reserve,
                   portfolio_values, summary>>

\* NewsWeight with Sentiment >= 0.3 for Sentiment > 0.3
NewsWeightInclusive(s) ==
    IF Ge(s, Q(3, 10)) THEN R(2)
    ELSE IF Ge(s, Zero) THEN R(1)
    ELSE Zero

\* lines 107-109, one row
NewsWeight(s) ==
    LET w0 == Zero
        w1 == IF Gt(s, Q(3, 10)) THEN R(2) ELSE w0
        w2 == IF Ge(s, Zero) /\ Le(s, Q(3, 10)) THEN R(1) ELSE w1
    IN  w2

\* lines 106-109
news_weights ==
    /\ pc = "news_weights"
    /\ ndf' = [i \in 1..Len(ndf) |->
                 [ndf[i] EXCEPT !.Buy_USD = NewsWeight(ndf[i].Sentiment)]]
    /\ pc' = "news_scale"
    /\ UNCHANGED <<apiVars, call, args, df, df_agent, buys, sip, agent, news, idx,
                   btc_holdings, cash_invested_total, cash_reserve,
                   portfolio_values, summary>>

BuyColumn(frame) == [i \in 1..Len(frame) |-> frame[i].Buy_USD]

\* lines 111-128: the normalisation, then the loop's locals
news_scale ==
    /\ pc = "news_scale"
    /\ ndf' = [i \in 1..Len(ndf) |->
                 [ndf[i] EXCEPT !.Buy_USD =
                     news_scale_month(GroupOf(df, BuyColumn(ndf), i),
                                      args.sip_amount)[IndexInGroup(df, i)]]]
    /\ btc_holdings' = Zero
    /\ cash_invested_total' = Zero
    /\ cash_reserve' = Zero
    /\ portfolio_values' = <<>>
    /\ idx' = 1
    /\ pc' = "news_buy"
    /\ UNCHANGED <<apiVars, call, args, df, df_agent, buys, sip, agent, news, summary>>

\* lines 131-136, the row idx
news_buy ==
    /\ pc = "news_buy"
    /\ idx <= Len(ndf)
    /\ LET buy_amount == ndf[idx].Buy_USD
       IN  IF Gt(buy_amount, Zero)
           THEN /\ btc_holdings' = Add(btc_holdings, Div(buy_amount, df[idx].Adj_Close))
                /\ cash_invested_total' = Add(cash_invested_total, buy_amount)
           ELSE UNCHANGED <<btc_holdings, cash_invested_total>>
    /\ pc' = "news_sell"
    /\ UNCHANGED <<apiVars, call, args, df, df_agent, buys, sip, agent, news, ndf, idx,
                   cash_reserve, portfolio_values, summary>>

\* line 139
SellSignal(sentiment, holdings) ==
    Lt(sentiment, Q(-3, 10)) /\ Gt(holdings, Zero)

\* line 140
SellFraction == Q(2, 10)

\* AfterSell selling 0.2 units for 20% of the units
AfterSellAbsolute(holdings) == Sub(holdings, SellFraction)

\* lines 141 and 143
AfterSell(holdings) == Sub(holdings, Mul(holdings, SellFraction))

\* DayValue without the cash reserve
DayValueNoReserve(holdings, close, reserve) == Mul(holdings, close)

\* line 146
DayValue(holdings, close, reserve) == Add(Mul(holdings, close), reserve)

\* news_sell as the elif of the buy: no sell on a day that bought
news_sell_elif ==
    /\ pc = "news_sell"
    /\ LET close == df[idx].Adj_Close
           sells == /\ ~Gt(ndf[idx].Buy_USD, Zero)
                    /\ SellSignal(ndf[idx].Sentiment, btc_holdings)
           btc_to_sell == Mul(btc_holdings, SellFraction)
           sell_value == Mul(btc_to_sell, close)
           held == IF sells THEN AfterSell(btc_holdings) ELSE btc_holdings
           reserve == IF sells THEN Add(cash_reserve, sell_value) ELSE cash_reserve
       IN  /\ btc_holdings' = held
           /\ cash_reserve' = reserve
           /\ portfolio_values' = Append(portfolio_values, DayValue(held, close, reserve))
    /\ idx' = idx + 1
    /\ pc' = "news_buy"
    /\ UNCHANGED <<apiVars, call, args, df, df_agent, buys, sip, agent, news, ndf,
                   cash_invested_total, summary>>

\* lines 138-146, the row idx
news_sell ==
    /\ pc = "news_sell"
    /\ LET close == df[idx].Adj_Close
           sells == SellSignal(ndf[idx].Sentiment, btc_holdings)
           btc_to_sell == Mul(btc_holdings, SellFraction)
           sell_value == Mul(btc_to_sell, close)
           held == IF sells THEN AfterSell(btc_holdings) ELSE btc_holdings
           reserve == IF sells THEN Add(cash_reserve, sell_value) ELSE cash_reserve
       IN  /\ btc_holdings' = held
           /\ cash_reserve' = reserve
           /\ portfolio_values' = Append(portfolio_values, DayValue(held, close, reserve))
    /\ idx' = idx + 1
    /\ pc' = "news_buy"
    /\ UNCHANGED <<apiVars, call, args, df, df_agent, buys, sip, agent, news, ndf,
                   cash_invested_total, summary>>

\* lines 148-154, and back in run_backtest lines 265-267
news_return ==
    /\ pc = "news_buy"
    /\ idx > Len(ndf)
    /\ news' = <<PortfolioState(cash_invested_total, btc_holdings, portfolio_values)>>
    /\ pc' = IF call = "run_backtest" THEN "summary_table" ELSE "done"
    /\ UNCHANGED <<apiVars, call, args, df, df_agent, buys, sip, agent, ndf, idx,
                   btc_holdings, cash_invested_total, cash_reserve,
                   portfolio_values, summary>>

----------------------------------------------------------------------------
(* Metrics and the summary table.                                          *)

\* the least / greatest of a non-empty set of numbers
MinOf(S) == CHOOSE x \in S : \A y \in S : Le(x, y)

MaxOf(S) == CHOOSE x \in S : \A y \in S : Ge(x, y)

\* Series.cummax()
CumMax(series) ==
    [i \in 1..Len(series) |-> MaxOf({series[j] : j \in 1..i})]

\* Series.min(): NaN is skipped, and is the result when nothing is left
SeriesMin(series) ==
    LET S == {series[i] : i \in 1..Len(series)} \ {NaN}
    IN  IF S = {} THEN NaN ELSE MinOf(S)

\* lines 157-161
max_drawdown(series) ==
    LET roll_max == CumMax(series)
        drawdown == [i \in 1..Len(series) |->
                       Div(Sub(series[i], roll_max[i]), roll_max[i])]
    IN  Mul(SeriesMin(drawdown), R(100))

\* Roi without the guard on cash_invested
RoiUnguarded(latest, cash_invested) ==
    Mul(Div(Sub(latest, cash_invested), cash_invested), R(100))

\* lines 168, 169, 185
Roi(latest, cash_invested) ==
    IF Gt(cash_invested, Zero)
    THEN Mul(Div(Sub(latest, cash_invested), cash_invested), R(100))
    ELSE Zero

\* lines 165-192, one row of the table
SummaryRow(name, state) ==
    LET latest == state.value_series[Len(state.value_series)]
    IN  [Strategy |-> name,
         Total_Invested |-> Round(state.cash_invested, 2),
         BTC_Accumulated |-> Round(state.btc_accumulated, 8),
         Current_Value |-> Round(latest, 2),
         ROI |-> Round(Roi(latest, state.cash_invested), 2),
         Max_Drawdown |-> Round(max_drawdown(state.value_series), 2)]

\* lines 267-268 and 164-194
summary_table ==
    /\ pc = "summary_table"
    /\ summary' = <<SummaryRow("Benchmark SIP", sip[1]),
                    SummaryRow("RSI-Based DCA", agent[1])>>
                  \o (IF news # <<>>
                      THEN <<SummaryRow("News Sentiment DCA", news[1])>>
                      ELSE <<>>)
    /\ pc' = "done"
    /\ UNCHANGED <<apiVars, call, args, df, df_agent, buys, sip, agent, news, ndf, idx,
                   btc_holdings, cash_invested_total, cash_reserve,
                   portfolio_values>>

----------------------------------------------------------------------------

----------------------------------------------------------------------------
(* news_api.py: compute_news_sentiment_series.                             *)

\* fetch_all_news returns at most this many articles
MaxArticles == 2

\* the texts (title and body) an article can carry
Texts == {"bearish", "neutral", "bullish"}

\* analyze_sentiment: TextBlob's polarity of a text, a number in [-1, 1]
analyze_sentiment(text) ==
    CASE text = "bearish" -> R(-1)
      [] text = "neutral" -> Zero
      [] text = "bullish" -> Q(1, 2)

\* an article of the date range: the price row its day is, its text, and the
\* sentiment column that is not there yet
Articles(n) == [date : 1..n, text : Texts, sentiment : {NaN}]

\* what fetch_all_news can return for n price dates: a frame sorted by date
ArticleLists(n) ==
    {l \in UNION {[1..m -> Articles(n)] : m \in 0..MaxArticles} :
        \A i \in 1..(Len(l) - 1) : l[i].date <= l[i + 1].date}

\* line 289: real news is fetched only if the flag is set and the
\* environment holds the key of some provider
compute_news_sentiment_series ==
    /\ pc = "compute_news_sentiment_series"
    /\ pc' = IF use_real_news = <<TRUE>> /\ keys # {}
             THEN "fetch_all_news"
             ELSE "simulate_sentiment_fallback"
    /\ UNCHANGED <<apiVars, call, args, df, df_agent, buys, sip, agent, news,
                   ndf, idx, btc_holdings, cash_invested_total, cash_reserve,
                   portfolio_values, summary>>

\* fetch_all_news (lines 241-271) and lines 298-302: CryptoCompare is asked
\* in any case, the other providers if their key is set; no article at all
\* is the fallback
fetch_all_news ==
    /\ pc = "fetch_all_news"
    /\ requested' = {"cryptocompare"} \cup (keys \ {"cryptocompare"})
    /\ news_df' \in ArticleLists(Len(df))
    /\ pc' = IF news_df' = <<>> THEN "simulate_sentiment_fallback"
             ELSE "analyze_sentiment"
    /\ UNCHANGED <<use_real_news, keys, sentiment_series, date_pos, call, args,
                   df, df_agent, buys, sip, agent, news, ndf, idx, btc_holdings,
                   cash_invested_total, cash_reserve, portfolio_values,
                   summary>>

\* lines 307-315: the sentiment column, and the empty series of the merge
score_articles ==
    /\ pc = "analyze_sentiment"
    /\ news_df' = [i \in 1..Len(news_df) |->
                     [news_df[i] EXCEPT
                        !.sentiment = analyze_sentiment(news_df[i].text)]]
    /\ sentiment_series' = [i \in 1..Len(df) |-> NaN]
    /\ date_pos' = 1
    /\ pc' = "merge"
    /\ UNCHANGED <<use_real_news, keys, requested, call, args, df, df_agent,
                   buys, sip, agent, news, ndf, idx, btc_holdings,
                   cash_invested_total, cash_reserve, portfolio_values,
                   summary>>

\* the rows of the articles of price date d
ArticlesOf(articles, d) == {i \in 1..Len(articles) : articles[i].date = d}

\* daily_sentiment (line 312): the mean sentiment of the date's articles
daily_sentiment(articles, d) ==
    LET rows == ArticlesOf(articles, d)
        col == [i \in 1..Len(articles) |->
                  IF i \in rows THEN articles[i].sentiment ELSE Zero]
    IN  Div(SumSeq(col), R(Cardinality(rows)))

\* MergeValue with the neutral score for every date without articles
MergeValueNeutral(series, articles, pos) ==
    IF ArticlesOf(articles, pos) # {} THEN daily_sentiment(articles, pos)
    ELSE Zero

\* lines 318-322: the score of the date at position pos
MergeValue(series, articles, pos) ==
    IF ArticlesOf(articles, pos) # {} THEN daily_sentiment(articles, pos)
    ELSE IF pos # 1 THEN series[pos - 1]
    ELSE Zero

\* lines 316-322, one date of price_df.index
merge_date ==
    /\ pc = "merge"
    /\ date_pos <= Len(df)
    /\ sentiment_series' =
         [sentiment_series EXCEPT
            ![date_pos] = MergeValue(sentiment_series, news_df, date_pos)]
    /\ date_pos' = date_pos + 1
    /\ UNCHANGED <<use_real_news, keys, requested, news_df, pc, call, args, df,
                   df_agent, buys, sip, agent, news, ndf, idx, btc_holdings,
                   cash_invested_total, cash_reserve, portfolio_values,
                   summary>>

\* Series.fillna(method='ffill'): the last value at or before each row
FFill(series) ==
    [i \in 1..Len(series) |->
       LET known == {j \in 1..i : ~IsNaN(series[j])}
       IN  IF known = {} THEN NaN
           ELSE series[CHOOSE j \in known : \A k \in known : k <= j]]

\* Series.fillna(value)
FillNa(series, value) ==
    [i \in 1..Len(series) |-> IF IsNaN(series[i]) THEN value ELSE series[i]]

\* lines 324-325
series_return ==
    /\ pc = "merge"
    /\ date_pos > Len(df)
    /\ sentiment_series' = FillNa(FFill(sentiment_series), Zero)
    /\ pc' = "done"
    /\ UNCHANGED <<use_real_news, keys, requested, news_df, date_pos, call,
                   args, df, df_agent, buys, sip, agent, news, ndf, idx,
                   btc_holdings, cash_invested_total, cash_reserve,
                   portfolio_values, summary>>

\* _simulate_sentiment_fallback (lines 333-340), the lines of
\* simulate_news_sentiment
simulate_sentiment_fallback ==
    /\ pc = "simulate_sentiment_fallback"
    /\ \E noise \in [(PctChangePeriods + 1)..Len(df) -> NoiseValues] :
         sentiment_series' =
             [i \in 1..Len(df) |->
                Sentiment(df, i, IF i > PctChangePeriods THEN noise[i]
                                 ELSE Zero)]
    /\ pc' = "done"
    /\ UNCHANGED <<use_real_news, keys, requested, news_df, date_pos, call,
                   args, df, df_agent, buys, sip, agent, news, ndf, idx,
                   btc_holdings, cash_invested_total, cash_reserve,
                   portfolio_values, summary>>

Next ==
    \/ app_run_backtest
    \/ compute_news_sentiment_series
    \/ fetch_all_news
    \/ score_articles
    \/ merge_date
    \/ series_return
    \/ simulate_sentiment_fallback
    \/ fetch_btc_history
    \/ compute_rsi
    \/ agent_signals
    \/ agent_scale
    \/ simulate_sip
    \/ agent_state
    \/ simulate_news_sentiment
    \/ news_weights
    \/ news_scale
    \/ news_buy
    \/ news_sell
    \/ news_return
    \/ summary_table

Spec == Init /\ [][Next]_vars

----------------------------------------------------------------------------
(* Properties.                                                             *)

\* the calendar months of the frame
Months == {df[i].Month : i \in 1..Len(df)}

\* the rows of the frame in month m
RowsOf(m) == {i \in 1..Len(df) : df[i].Month = m}

\* row i is the first trading day of its month
IsFirstDay(i) == \A j \in 1..(i - 1) : df[j].Month # df[i].Month

\* the sum of col over the rows of month m
RECURSIVE SumOver(_, _)
SumOver(col, S) ==
    IF S = {} THEN Zero
    ELSE LET i == CHOOSE x \in S : TRUE
         IN  Add(col[i], SumOver(col, S \ {i}))

\* C1: simulate_sip buys monthly_amount exactly once in every calendar month
\* of the series, on the month's first trading day, buys 0 on every other
\* day, and returns cash_invested = monthly_amount x (number of months).
C1_SipOneBuyPerMonth ==
    sip # <<>> =>
        /\ Len(buys) = Len(df)
        /\ \A m \in Months :
             /\ Cardinality({i \in RowsOf(m) : buys[i] = args.sip_amount}) = 1
             /\ \A i \in RowsOf(m) :
                  IF IsFirstDay(i) THEN buys[i] = args.sip_amount
                  ELSE buys[i] = Zero
        /\ sip[1].cash_invested = Mul(args.sip_amount, R(Cardinality(Months)))

\* a returned SIP over two months, the first of them with a second day
C1_Witness ==
    /\ sip # <<>>
    /\ Len(df) = 3
    /\ df[1].Month = df[2].Month
    /\ df[3].Month # df[2].Month
    /\ buys = <<R(100), Zero, R(100)>>
    /\ sip[1].cash_invested = R(200)

\* the RSI strategy's amounts have been normalised
AgentScaled ==
    /\ call = "run_backtest"
    /\ args.equal_monthly_budget
    /\ pc \in {"simulate_sip", "IndexError", "agent_state", "simulate_news_sentiment",
               "news_weights", "news_scale", "news_buy", "news_sell",
               "summary_table", "done"}

\* C2 as stated: with equal_monthly_budget, every month's normalised RSI
\* amounts sum to sip_amount, whatever agent_buy_low and agent_buy_normal are.
C2_MonthSumsToBudget ==
    AgentScaled =>
        \A m \in Months : SumOver(df_agent, RowsOf(m)) = args.sip_amount

\* C2 amended: with equal_monthly_budget and agent_buy_low >= 0 and
\* agent_buy_normal >= 0, every month's normalised RSI amounts sum to
\* sip_amount, months without a signal included.
C2_MonthSumsToBudgetNonNegative ==
    (AgentScaled /\ Ge(args.agent_buy_low, Zero) /\ Ge(args.agent_buy_normal, Zero)) =>
        \A m \in Months : SumOver(df_agent, RowsOf(m)) = args.sip_amount

\* a two-day month with every oscillator >= 40: the budget is on its first day
C2_Witness ==
    /\ AgentScaled
    /\ Ge(args.agent_buy_low, Zero)
    /\ Len(df) = 2
    /\ df[1].Month = df[2].Month
    /\ \A i \in 1..2 : Ge(df[i].RSI, R(40))
    /\ df_agent = <<args.sip_amount, Zero>>

\* df_agent holds the raw amounts of lines 230-233
AgentRaw ==
    /\ call = "run_backtest"
    /\ \/ pc = "scale_month"
       \/ /\ ~args.equal_monthly_budget
          /\ pc \in {"simulate_sip", "IndexError", "agent_state",
                     "simulate_news_sentiment", "news_weights", "news_scale",
                     "news_buy", "news_sell", "summary_table", "done"}

\* C9: the raw daily amount of the RSI strategy is agent_buy_low when
\* RSI < 30, agent_buy_normal when 30 <= RSI < 40, and 0 when RSI >= 40.
C9_ThresholdTable ==
    AgentRaw =>
        /\ Len(df_agent) = Len(df)
        /\ \A i \in 1..Len(df) :
             /\ Lt(df[i].RSI, R(30)) => df_agent[i] = args.agent_buy_low
             /\ (Ge(df[i].RSI, R(30)) /\ Lt(df[i].RSI, R(40))) =>
                    df_agent[i] = args.agent_buy_normal
             /\ Ge(df[i].RSI, R(40)) => df_agent[i] = Zero

\* raw amounts for an oscillator of exactly 30 and of exactly 40
C9_Witness ==
    /\ AgentRaw
    /\ Len(df) = 2
    /\ df[1].RSI = R(30)
    /\ df[2].RSI = R(40)
    /\ args.agent_buy_low # args.agent_buy_normal
    /\ df_agent = <<args.agent_buy_normal, Zero>>

\* the sentiment strategy's loop is at row idx
InLoop == pc \in {"news_buy", "news_sell"} /\ idx <= Len(ndf)

\* C3: in simulate_news_based_dca units held are never negative; a day with
\* sentiment < -0.3 and units held > 0 sells exactly 20% of the units held
\* just before the sell; with units held = 0 nothing is sold whatever the
\* sentiment; on a day with sentiment >= -0.3 units held do not decrease.
C3_SellsTwentyPercent ==
    [][/\ Ge(btc_holdings', Zero)
       /\ (pc = "news_sell" /\ Lt(ndf[idx].Sentiment, Q(-3, 10))
             /\ Gt(btc_holdings, Zero)) =>
            /\ Sub(btc_holdings, btc_holdings') = Mul(btc_holdings, Q(20, 100))
            /\ Lt(btc_holdings', btc_holdings)
       /\ (pc = "news_sell" /\ btc_holdings = Zero) =>
            /\ btc_holdings' = Zero
            /\ cash_reserve' = cash_reserve
       /\ (InLoop /\ Ge(ndf[idx].Sentiment, Q(-3, 10))) =>
            Ge(btc_holdings', btc_holdings)]_vars

\* one unit bought at 100 and a fifth of it sold on a later day
C3_Witness ==
    /\ pc = "news_buy"
    /\ idx > 1
    /\ Lt(ndf[idx - 1].Sentiment, Q(-3, 10))
    /\ ndf[idx - 1].Buy_USD = Zero
    /\ btc_holdings = Q(4, 5)
    /\ Gt(cash_reserve, Zero)

\* C4: in simulate_news_based_dca cash_invested changes only on a day with a
\* positive normalised buy amount, where it grows by exactly that amount; a
\* sell leaves it alone and adds units_sold x close to the cash reserve; it
\* never decreases; the value recorded for a day is units_held x close +
\* cash_reserve after the day's buy and sell.
C4_CashInvestedAndValue ==
    [][/\ Ge(cash_invested_total', cash_invested_total)
       /\ cash_invested_total' # cash_invested_total =>
            /\ pc = "news_buy"
            /\ idx <= Len(ndf)
            /\ Gt(ndf[idx].Buy_USD, Zero)
       /\ (pc = "news_buy" /\ idx <= Len(ndf) /\ Gt(ndf[idx].Buy_USD, Zero)) =>
            cash_invested_total' = Add(cash_invested_total, ndf[idx].Buy_USD)
       /\ pc = "news_sell" =>
            /\ cash_invested_total' = cash_invested_total
            /\ cash_reserve' =
                 Add(cash_reserve,
                     Mul(Sub(btc_holdings, btc_holdings'), df[idx].Adj_Close))
            /\ Len(portfolio_values') = idx
            /\ portfolio_values'[idx] =
                 Add(Mul(btc_holdings', df[idx].Adj_Close), cash_reserve')
            /\ \A k \in 1..(idx - 1) : portfolio_values'[k] = portfolio_values[k]]_vars

\* a day's value recorded with a non-empty cash reserve, the budget invested
C4_Witness ==
    /\ pc = "news_buy"
    /\ idx > 1
    /\ Gt(cash_reserve, Zero)
    /\ cash_invested_total = R(100)
    /\ Len(portfolio_values) = idx - 1
    /\ portfolio_values[idx - 1] =
         Add(Mul(btc_holdings, df[idx - 1].Adj_Close), cash_reserve)

\* what the normalisation rule as stated gives row i of a frame: the whole
\* target on the first day of a month whose raw total is zero, 0 on its other
\* days, and raw x target / total in a month whose raw total is not zero
StatedNorm(raw, target, i) ==
    LET total == SumOver(raw, RowsOf(df[i].Month))
    IN  IF total = Zero
        THEN IF IsFirstDay(i) THEN target ELSE Zero
        ELSE Div(Mul(raw[i], target), total)

\* the rule the code follows: the fallback for every total <= 0, where the
\* other days of the month keep their raw amounts
CodeNorm(raw, target, i) ==
    LET total == SumOver(raw, RowsOf(df[i].Month))
    IN  IF Le(total, Zero)
        THEN IF IsFirstDay(i) THEN target ELSE raw[i]
        ELSE Div(Mul(raw[i], target), total)

\* C8 as stated: both normalisations give the first day the target and leave
\* the rest of the month 0 when the month's raw total is zero, and scale every
\* day by target / total for any other total.
C8_NormalisationAsStated ==
    [][/\ pc = "scale_month" =>
            \A i \in 1..Len(df) :
                df_agent'[i] = StatedNorm(df_agent, args.sip_amount, i)
       /\ pc = "news_scale" =>
            \A i \in 1..Len(df) :
                ndf'[i].Buy_USD = StatedNorm(BuyColumn(ndf), args.sip_amount, i)]_vars

\* C8 amended: both normalisations take the fallback when the month's raw
\* total is <= 0 (not only when it is zero): the first trading day gets the
\* whole target and every other day of the month keeps its raw amount (0
\* whenever the raw amounts are non-negative); for a positive raw total every
\* day's amount becomes raw x target / total.
C8_Normalisation ==
    [][/\ pc = "scale_month" =>
            \A i \in 1..Len(df) :
                df_agent'[i] = CodeNorm(df_agent, args.sip_amount, i)
       /\ pc = "news_scale" =>
            \A i \in 1..Len(df) :
                /\ ndf'[i].Buy_USD = CodeNorm(BuyColumn(ndf), args.sip_amount, i)
                /\ ndf'[i].Sentiment = ndf[i].Sentiment]_vars

\* a month of the sentiment strategy with weights 2 and 1 on its last two
\* days: they get two thirds and one third of the budget, the others 0
C8_Witness ==
    /\ pc = "news_buy"
    /\ idx = 1
    /\ Len(ndf) = 9
    /\ df[1].Month = df[9].Month
    /\ Gt(ndf[8].Sentiment, Q(3, 10))
    /\ ndf[9].Sentiment = Zero
    /\ ndf[8].Buy_USD = Q(200, 3)
    /\ ndf[9].Buy_USD = Q(100, 3)
    /\ \A i \in 1..7 : ndf[i].Buy_USD = Zero

\* C10: the sentiment strategy's raw weight is 2 if s > 0.3, 1 if
\* 0 <= s <= 0.3 and 0 otherwise, and only s < -0.3 triggers a sell.
C10_WeightsAndSellThreshold ==
    [][/\ pc = "news_weights" =>
            \A i \in 1..Len(ndf) :
                LET s == ndf[i].Sentiment
                IN  ndf'[i].Buy_USD =
                        IF Gt(s, Q(3, 10)) THEN R(2)
                        ELSE IF Ge(s, Zero) /\ Le(s, Q(3, 10)) THEN R(1)
                        ELSE Zero
       /\ (pc = "news_sell" /\ (btc_holdings' # btc_holdings
                                  \/ cash_reserve' # cash_reserve)) =>
            Lt(ndf[idx].Sentiment, Q(-3, 10))]_vars

\* a buy on a day of sentiment exactly 0.3 at the normal weight, then a day
\* of sentiment exactly -0.3 that neither buys nor sells
C10_Witness ==
    /\ pc = "news_buy"
    /\ idx = 10
    /\ df[1].Month # df[8].Month
    /\ ndf[8].Sentiment = Q(3, 10)
    /\ ndf[9].Sentiment = Q(-3, 10)
    /\ ndf[8].Buy_USD = args.sip_amount
    /\ ndf[9].Buy_USD = Zero
    /\ cash_reserve = Zero
    /\ Gt(btc_holdings, Zero)
    /\ portfolio_values[9] = Mul(btc_holdings, df[9].Adj_Close)

\* C5: run_backtest fails only with the fatal error for an empty series of
\* the provider; on every non-empty series it completes and returns the
\* summary table and the portfolio states.
C5_CompletesOnData ==
    call = "run_backtest" =>
        /\ pc = "RuntimeError" => df = <<>>
        /\ pc # "IndexError"
        /\ pc = "done" => (summary # <<>> /\ sip # <<>> /\ agent # <<>>)

\* the equity curves run_backtest returns
Curves ==
    {sip[1].value_series, agent[1].value_series}
        \cup (IF news # <<>> THEN {news[1].value_series} ELSE {})

NonDecreasing(series) ==
    \A i \in 1..(Len(series) - 1) : Le(series[i], series[i + 1])

\* C6: for every equity curve a strategy produces, max_drawdown is a defined
\* value <= 0, and exactly 0 for a non-decreasing curve, zero days included.
C6_DrawdownDefined ==
    (call = "run_backtest" /\ pc = "done") =>
        \A c \in Curves :
            /\ IsFinite(max_drawdown(c))
            /\ Le(max_drawdown(c), Zero)
            /\ NonDecreasing(c) => max_drawdown(c) = Zero

\* the portfolio states behind the rows of the summary table, in row order
Summarised == <<sip[1], agent[1]>> \o news

\* C7: a row of the summary table reports ROI 0 when the strategy's
\* cash_invested is 0, and (final value - cash_invested) / cash_invested x 100
\* when it is > 0 (as the table shows it: rounded to 2 decimals).
C7_RoiGuard ==
    (call = "run_backtest" /\ pc = "done") =>
        /\ Len(summary) = Len(Summarised)
        /\ \A k \in 1..Len(summary) :
             LET st == Summarised[k]
                 final == st.value_series[Len(st.value_series)]
             IN  /\ st.cash_invested = Zero => summary[k].ROI = Zero
                 /\ Gt(st.cash_invested, Zero) =>
                        summary[k].ROI =
                            Round(Div(Mul(Sub(final, st.cash_invested), R(100)),
                                      st.cash_invested), 2)

\* a table of three rows: the RSI strategy never bought (ROI 0), the SIP
\* benchmark gained
C7_Witness ==
    /\ call = "run_backtest"
    /\ pc = "done"
    /\ Len(summary) = 3
    /\ agent[1].cash_invested = Zero
    /\ summary[2].ROI = Zero
    /\ Gt(sip[1].cash_invested, Zero)
    /\ Gt(summary[1].ROI, Zero)

\* C11: every day of the series the sentiment strategy consumes carries a
\* defined sentiment score in [-1, 1], the first seven days included.
C11_SentimentDefined ==
    \A i \in 1..Len(ndf) :
        /\ IsFinite(ndf[i].Sentiment)
        /\ Ge(ndf[i].Sentiment, R(-1))
        /\ Le(ndf[i].Sentiment, R(1))

\* C12: the use_real_news flag the UI passes selects the sentiment source of
\* the News strategy, and the call goes through whether the flag is on or
\* off: the UI's call never stops with a TypeError.
C12_FlagAccepted ==
    call = "app" => pc # "TypeError"

\* the call of compute_news_sentiment_series the claims C13 and C14 are about
RealNewsCall == call = "compute_news_sentiment_series" /\ use_real_news = <<TRUE>>

\* C13: with the real-news flag on and no API key configured, the system
\* still asks CryptoCompare for articles and falls back to the simulated
\* sentiment only if no article came back.
C13_KeylessFetch ==
    (RealNewsCall /\ keys = {} /\ pc \in {"simulate_sentiment_fallback", "done"})
        => ("cryptocompare" \in requested /\ news_df = <<>>)

\* the real-news path has a frame of articles and is in or past its loop
InMerge ==
    call = "compute_news_sentiment_series" /\ pc \in {"merge", "done"}
        /\ news_df # <<>>

\* the dates the loop has been through
Merged == {d \in 1..Len(df) : pc = "merge" => d < date_pos}

\* the polarity of each fetched article
Polarity == [i \in 1..Len(news_df) |-> analyze_sentiment(news_df[i].text)]

\* C14: in the real-news path the dates of the price series are scored in
\* order: a date with articles gets the mean polarity of its articles, a
\* date without articles gets the score of the price date right before it,
\* the first date gets 0 if it has no articles, and so every date the loop
\* has been through has a defined score.
C14_ForwardFill ==
    InMerge =>
        /\ \A d \in (1..Len(df)) \ Merged : IsNaN(sentiment_series[d])
        /\ \A d \in Merged :
             LET S == {i \in 1..Len(news_df) : news_df[i].date = d}
             IN  /\ IsFinite(sentiment_series[d])
                 /\ S # {} =>
                      sentiment_series[d] =
                          Div(SumOver(Polarity, S), R(Cardinality(S)))
                 /\ (S = {} /\ d > 1) =>
                      sentiment_series[d] = sentiment_series[d - 1]
                 /\ (S = {} /\ d = 1) => sentiment_series[d] = Zero

\* three dates are done: none on the first, a bearish and a bullish article
\* on the second, none on the third, which carries the second's mean
C14_Witness ==
    /\ InMerge
    /\ pc = "done"
    /\ Len(df) = 3
    /\ Len(news_df) = 2
    /\ \A i \in 1..2 : news_df[i].date = 2
    /\ news_df[1].text # news_df[2].text
    /\ sentiment_series = <<Zero, Q(-1, 4), Q(-1, 4)>>

\* the row i both buys and has a sentiment below the sell threshold
BuysAndSells(i) ==
    Gt(ndf[i].Buy_USD, Zero) /\ Lt(ndf[i].Sentiment, Q(-3, 10))

\* the units the row i buys
UnitsBought(i) == Div(ndf[i].Buy_USD, df[i].Adj_Close)

\* C15: in simulate_news_based_dca a day can both buy and sell (the
\* zero-total fallback puts the month's budget on a first trading day whose
\* sentiment is below -0.3).  On such a day the buy comes first: it adds the
\* units bought and the full buy amount to cash_invested; the sell follows
\* on the same row, the holdings it sees include the units just bought, it
\* removes 20% of them into the cash reserve and leaves cash_invested alone.
C15_BuyThenSell ==
    [][/\ (pc = "news_buy" /\ idx <= Len(ndf) /\ BuysAndSells(idx)) =>
            /\ pc' = "news_sell" /\ idx' = idx
            /\ btc_holdings' = Add(btc_holdings, UnitsBought(idx))
            /\ cash_invested_total' =
                   Add(cash_invested_total, ndf[idx].Buy_USD)
            /\ cash_reserve' = cash_reserve
       /\ (pc = "news_sell" /\ BuysAndSells(idx)) =>
            /\ Ge(btc_holdings, UnitsBought(idx))
            /\ btc_holdings' = Mul(btc_holdings, Q(80, 100))
            /\ cash_reserve' =
                   Add(cash_reserve,
                       Mul(Mul(btc_holdings, Q(20, 100)), df[idx].Adj_Close))
            /\ cash_invested_total' = cash_invested_total
            /\ pc' = "news_buy" /\ idx' = idx + 1
      ]_vars

\* row 8 opens the second month with a sentiment below -0.3 and no day of
\* that month has a weight, so the fallback buys the budget on row 8 and the
\* same row sells a fifth of everything held, the new units included
C15_Witness ==
    /\ call = "simulate_news_based_dca"
    /\ pc = "news_buy"
    /\ idx = 9
    /\ df[8].Month # df[7].Month
    /\ BuysAndSells(8)
    /\ ndf[8].Buy_USD = args.sip_amount
    /\ cash_invested_total = Mul(R(2), args.sip_amount)
    /\ btc_holdings = Mul(Q(4, 5), Add(UnitsBought(1), UnitsBought(8)))
    /\ cash_reserve = Mul(Mul(Q(1, 5), Add(UnitsBought(1), UnitsBought(8))),
                          df[8].Adj_Close)

\* what the SIP benchmark deploys: the monthly amount once per calendar month
SipCash == Mul(args.sip_amount, R(Cardinality(Months)))

\* the agent amounts of the call are not negative
AgentAmountsNonNegative ==
    Ge(args.agent_buy_low, Zero) /\ Ge(args.agent_buy_normal, Zero)

\* C16: with sip_amount >= 0 every budget-normalised strategy deploys the
\* cash the SIP benchmark deploys.  The sentiment strategy's cash_invested is
\* sip_amount x (number of distinct months) whatever the sentiment series
\* is, sells or no sells; within run_backtest that is the benchmark's
\* cash_invested, and with equal_monthly_budget and non-negative agent
\* amounts the RSI strategy's cash_invested is the same amount.
C16_SameCashDeployed ==
    Ge(args.sip_amount, Zero) =>
        /\ news # <<>> => news[1].cash_invested = SipCash
        /\ (call = "run_backtest" /\ sip # <<>>) =>
               sip[1].cash_invested = SipCash
        /\ (call = "run_backtest" /\ agent # <<>> /\ args.equal_monthly_budget
                /\ AgentAmountsNonNegative) =>
               agent[1].cash_invested = SipCash

\* a nine-day frame over two months whose two scored days both sell: the
\* strategy has returned with two budgets deployed and cash in the reserve
C16_SellsReached ==
    /\ call = "simulate_news_based_dca"
    /\ pc = "done"
    /\ Len(df) = 9
    /\ Cardinality(Months) = 2
    /\ \A i \in 8..9 : Lt(ndf[i].Sentiment, Q(-3, 10))
    /\ Gt(cash_reserve, Zero)
    /\ Len(portfolio_values) = 9
    /\ news[1].cash_invested = Mul(R(2), args.sip_amount)

\* a run_backtest over two months with the budget matched: the three
\* strategies have deployed the same cash
C16_Witness ==
    /\ call = "run_backtest"
    /\ pc = "done"
    /\ args.equal_monthly_budget
    /\ AgentAmountsNonNegative
    /\ Cardinality(Months) = 2
    /\ \E i \in 1..Len(df) : Gt(AgentBuy(df[i].RSI, args.agent_buy_low,
                                          args.agent_buy_normal), Zero)
    /\ news # <<>>
    /\ sip[1].cash_invested = Mul(R(2), args.sip_amount)
    /\ agent[1].cash_invested = sip[1].cash_invested
    /\ news[1].cash_invested = sip[1].cash_invested

====
